---- MODULE Spec2Model ----
(***************************************************************************)
(* MarkdownPDF (src/lib/main.ts): main(args, cwd) resolves the command     *)
(* line into an Options object, renders the Markdown source into a         *)
(* composed HTML page and prints it to PDF through a browser.              *)
(*                                                                         *)
(* A JavaScript string is a sequence of one-character strings, so that     *)
(* split, endsWith, replace, path.resolve and path.basename are computed   *)
(* character by character as the runtime computes them.                    *)
(***************************************************************************)
EXTENDS Naturals, Sequences, FiniteSets

VARIABLES args, cwd, pc, options, thrown, steps, console, exits,
          browser, closes, files, web, page, request

vars == <<args, cwd, pc, options, thrown, steps, console, exits,
          browser, closes, files, web, page, request>>

-----------------------------------------------------------------------------
(* Bound of the model: the longest argument list main is called with.      *)
MaxArgs == 2

-----------------------------------------------------------------------------
(* String literals of the source.                                          *)
EmptyStr == <<>>
DotMd    == <<".", "m", "d">>
DotPdf   == <<".", "p", "d", "f">>
DotHtml  == <<".", "h", "t", "m", "l">>
KeySrc        == <<"-", "-", "s", "r", "c">>
KeyOut        == <<"-", "-", "o", "u", "t">>
KeyOutputHTML == <<"-", "-", "o", "u", "t", "p", "u", "t", "H", "T", "M", "L">>
KeyShowTitle  == <<"-", "-", "s", "h", "o", "w", "T", "i", "t", "l", "e">>
KeyBrowser    == <<"-", "-", "b", "r", "o", "w", "s", "e", "r">>
(* The default browser path is one opaque character here: no operation of  *)
(* the program looks inside it.                                            *)
DefaultBrowser == <<"C:\\Program Files (x86)\\Microsoft\\Edge\\Application\\msedge.exe">>

-----------------------------------------------------------------------------
(* The(S) is the element of a one-element set.  The({e(x) : x \in {v}}) is *)
(* e(v) with v evaluated once: the operators below name each intermediate  *)
(* value (const a = arg.split('=') ...) this way.                          *)
The(S) == CHOOSE r \in S : TRUE

-----------------------------------------------------------------------------
(* String.prototype methods.                                               *)

(* s.endsWith(suffix) *)
endsWith(s, suffix) ==
    \E x \in {s}, y \in {suffix} :
        /\ Len(x) >= Len(y)
        /\ SubSeq(x, Len(x) - Len(y) + 1, Len(x)) = y

(* s.indexOf(pattern), 1-based; 0 when the pattern does not occur. *)
indexOf(s, pattern) ==
    The({ The({ IF hits = {} THEN 0
                ELSE CHOOSE i \in hits : \A j \in hits : i <= j :
                hits \in {{i \in 1..(Len(x) + 1) :
                            /\ i + Len(y) - 1 <= Len(x)
                            /\ SubSeq(x, i, i + Len(y) - 1) = y}} }) :
          x \in {s}, y \in {pattern} })

(* s.replace(pattern, replacement) with a string pattern: only the first   *)
(* occurrence is replaced; s is returned unchanged when there is none.     *)
replace(s, pattern, replacement) ==
    The({ IF i = 0 THEN x
          ELSE SubSeq(x, 1, i - 1) \o replacement
                  \o SubSeq(x, i + Len(pattern), Len(x)) :
          x \in {s}, i \in {indexOf(s, pattern)} })

(* s.split(sep) for a one-character separator: the pieces between the      *)
(* separators, one more piece than there are separators.                   *)
RECURSIVE split(_, _)
split(s, sep) ==
    The({ IF i = 0 THEN <<x>>
          ELSE <<SubSeq(x, 1, i - 1)>> \o split(SubSeq(x, i + 1, Len(x)), sep) :
          x \in {s}, i \in {indexOf(s, <<sep>>)} })

-----------------------------------------------------------------------------
(* node:path, POSIX flavour.                                               *)

(* normalizeString: "" and "." segments are dropped, ".." removes the      *)
(* segment before it (and is dropped at the root).                         *)
RECURSIVE normalizeSegments(_, _)
normalizeSegments(segs, acc) ==
    The({ IF x = <<>> THEN y
          ELSE IF Head(x) = EmptyStr \/ Head(x) = <<".">>
               THEN normalizeSegments(Tail(x), y)
          ELSE IF Head(x) = <<".", ".">>
               THEN normalizeSegments(Tail(x),
                      IF y = <<>> THEN y ELSE SubSeq(y, 1, Len(y) - 1))
          ELSE normalizeSegments(Tail(x), Append(y, Head(x))) :
          x \in {segs}, y \in {acc} })

RECURSIVE joinSegments(_)
joinSegments(segs) ==
    The({ IF x = <<>> THEN EmptyStr
          ELSE <<"/">> \o Head(x) \o joinSegments(Tail(x)) :
          x \in {segs} })

(* path.resolve(from, to) with an absolute from: an absolute to replaces   *)
(* from, a relative one is appended; the result is normalized and has no   *)
(* trailing slash.                                                         *)
resolve(from, to) ==
    The({ IF segs = <<>> THEN <<"/">> ELSE joinSegments(segs) :
          segs \in {normalizeSegments(
                      split(The({ IF Len(y) > 0 /\ y[1] = "/" THEN y
                                  ELSE x \o <<"/">> \o y :
                                  x \in {from}, y \in {to} }), "/"),
                      <<>>)} })

(* path.basename(p): the last segment of p, trailing slashes ignored.      *)
basename(p) ==
    The({ IF segs = <<>> THEN EmptyStr ELSE segs[Len(segs)] :
          segs \in {SelectSeq(split(p, "/"), LAMBDA x : x # EmptyStr)} })

-----------------------------------------------------------------------------
(* class Options.                                                          *)

(* The fields as the constructor first sets them; threw records that the   *)
(* constructor has thrown SyntaxError.                                     *)
DefaultOptions ==
    [src |-> EmptyStr, out |-> EmptyStr, outputHTML |-> FALSE,
     showTitle |-> FALSE, browser |-> DefaultBrowser, threw |-> FALSE]

Throw(o) == [o EXCEPT !.threw = TRUE]

(* Mutation of caseSrc: the extension is appended whether or not the value *)
(* already carries it.                                                     *)
caseSrcAlwaysAppends(o, a, dir) ==
    IF Len(a) # 2 \/ a[2] = EmptyStr THEN Throw(o)
    ELSE [o EXCEPT !.src = resolve(dir, a[2] \o DotMd)]

(* case '--src', a = arg.split('=') *)
caseSrc(o, a, dir) ==
    IF Len(a) # 2 \/ a[2] = EmptyStr THEN Throw(o)
    ELSE [o EXCEPT !.src = IF endsWith(a[2], DotMd)
                           THEN resolve(dir, a[2])
                           ELSE resolve(dir, a[2] \o DotMd)]

(* case '--out' *)
caseOut(o, a, dir) ==
    IF Len(a) # 2 \/ a[2] = EmptyStr THEN Throw(o)
    ELSE [o EXCEPT !.out = IF endsWith(a[2], DotPdf)
                           THEN resolve(dir, a[2])
                           ELSE resolve(dir, a[2] \o DotPdf)]

(* Mutation of caseOutputHTML: a flag followed by '=' is rejected.         *)
caseOutputHTMLStrict(o, a) ==
    IF Len(a) # 1 THEN Throw(o) ELSE [o EXCEPT !.outputHTML = TRUE]

(* case '--outputHTML': whatever follows the key is not looked at. *)
caseOutputHTML(o, a) == [o EXCEPT !.outputHTML = TRUE]

(* case '--showTitle' *)
caseShowTitle(o, a) == [o EXCEPT !.showTitle = TRUE]

(* case '--browser' *)
caseBrowser(o, a) ==
    IF Len(a) # 2 \/ a[2] = EmptyStr THEN Throw(o)
    ELSE [o EXCEPT !.browser = a[2]]

(* Mutation of caseDefault: an unrecognised key is skipped.                *)
caseDefaultIgnores(o, a) == o

(* default *)
caseDefault(o, a) == Throw(o)

(* The body of the forEach callback: switch (arg.split('=')[0]), with      *)
(* a = arg.split('=').                                                     *)
parseArg(o, arg, dir) ==
    The({ CASE a[1] = KeySrc        -> caseSrc(this, a, dir)
            [] a[1] = KeyOut        -> caseOut(this, a, dir)
            [] a[1] = KeyOutputHTML -> caseOutputHTML(this, a)
            [] a[1] = KeyShowTitle  -> caseShowTitle(this, a)
            [] a[1] = KeyBrowser    -> caseBrowser(this, a)
            [] OTHER                -> caseDefault(this, a) :
          this \in {o}, a \in {split(arg, "=")} })

(* args.forEach(...): left to right, abandoned at the first throw. *)
RECURSIVE forEachArg(_, _, _)
forEachArg(o, as, dir) ==
    The({ IF rest = <<>> \/ this.threw THEN this
          ELSE forEachArg(parseArg(this, Head(rest), dir), Tail(rest), dir) :
          this \in {o}, rest \in {as} })

(* The checks after the loop: src is required, out defaults from src. *)
checkOptions(o) ==
    The({ IF this.threw THEN this
          ELSE IF this.src = EmptyStr THEN Throw(this)
          ELSE IF this.out = EmptyStr
               THEN [this EXCEPT !.out = replace(this.src, DotMd, DotPdf)]
          ELSE this :
          this \in {o} })

(* new Options(args, cwd) *)
Options(as, dir) == checkOptions(forEachArg(DefaultOptions, as, dir))

-----------------------------------------------------------------------------
(* The command lines and working directories main is called with.          *)

Cat(key, rest) == key \o rest

(* Argument strings: every recognised key well-formed and malformed, a     *)
(* key that is not recognised, and a bare word.  Source values with and    *)
(* without the extension, with ".md" inside the name, relative to the      *)
(* parent directory; output values relative and absolute.                  *)
ArgPool ==
    { KeySrc,
      Cat(KeySrc, <<"=">>),
      Cat(KeySrc, <<"=", "a">>),
      Cat(KeySrc, <<"=", "a", ".", "m", "d">>),
      Cat(KeySrc, <<"=", "a", ".", "m", "d", "a">>),
      Cat(KeySrc, <<"=", ".", ".", "/", "b">>),
      Cat(KeySrc, <<"=", "a", "=", "a">>),
      Cat(KeyOut, <<"=", "c", ".", "p", "d", "f">>),
      Cat(KeyOut, <<"=", "/", "r", "/", "c">>),
      Cat(KeyOut, <<"=">>),
      KeyOutputHTML,
      Cat(KeyOutputHTML, <<"=", "1">>),
      KeyShowTitle,
      Cat(KeyShowTitle, <<"=", "1">>),
      KeyBrowser,
      Cat(KeyBrowser, <<"=", "x">>),
      <<"-", "-", "f">>,
      <<"-", "-", "f", "=", "a">>,
      <<"a">> }

ArgLists == UNION {[1..n -> ArgPool] : n \in 0..MaxArgs}

(* Working directories: absolute, one of them with ".md" in its name.      *)
Cwds == { <<"/", "w">>, <<"/", "x", ".", "m", "d">> }

-----------------------------------------------------------------------------
(* Values thrown and caught.                                               *)

(* What the awaited library calls reject with: fs rejects with a system    *)
(* error (class Error), puppeteer with an Error or one of its subclasses   *)
(* such as TimeoutError.  SyntaxError is what the Options constructor      *)
(* throws.                                                                 *)
RejectionClasses == {"Error", "TimeoutError"}

(* e instanceof SyntaxError, e instanceof Error *)
InstanceOfSyntaxError(e) == e.class = "SyntaxError"
InstanceOfError(e) == e.class \in {"Error", "TimeoutError", "SyntaxError"}

NoError == [class |-> "none", at |-> "none"]

(* console.log / console.error lines. *)
Note(kind, e) == [kind |-> kind, error |-> e]

(* headerTemplate / footerTemplate literals of the print request (the CJK  *)
(* font name and page words are written in ASCII here).                    *)
TitleHeaderTemplate ==
    "<div style=\"font-size: 9px; font-family: SimSun; color: #333; padding: 5px; margin-left: 0.6cm;\"> <span class=\"title\"></span> </div>"
EmptyHeaderTemplate == "<div></div>"
FooterTemplate ==
    "<div style=\"font-size: 9px; font-family: SimSun; color: #333; padding: 5px; margin: 0 auto;\">p. <span class=\"pageNumber\"></span> / <span class=\"totalPages\"></span></div>"

-----------------------------------------------------------------------------
Init ==
    /\ args \in ArgLists
    /\ cwd \in Cwds
    /\ pc = "main"
    /\ options = <<>>
    /\ thrown = NoError
    /\ steps = <<>>
    /\ console = <<>>
    /\ exits = <<>>
    /\ browser = "none"
    /\ closes = 0
    /\ files = {}
    /\ web = <<>>
    /\ page = "none"
    /\ request = <<>>

(* An awaited call that settles: fulfilled, control goes on to next;       *)
(* rejected with a value of class c, control goes to main's catch.         *)
Fulfilled(step, next) ==
    /\ steps' = Append(steps, [step |-> step, ok |-> TRUE])
    /\ pc' = next
    /\ thrown' = thrown

Rejected(step, c) ==
    /\ steps' = Append(steps, [step |-> step, ok |-> FALSE])
    /\ pc' = "catch"
    /\ thrown' = [class |-> c, at |-> step]

(* Mutation of NewOptions: the constructor's throw is swallowed and the    *)
(* rendering goes on with what was parsed so far.                          *)
NewOptionsSwallowsThrow ==
    /\ pc = "main"
    /\ \E o \in {Options(args, cwd)} :
          /\ steps' = Append(steps, [step |-> "options", ok |-> ~o.threw])
          /\ options' = <<[o EXCEPT !.threw = FALSE]>>
          /\ pc' = "readSrc"
          /\ thrown' = thrown
          /\ console' = Append(console, Note("begin", NoError))
    /\ UNCHANGED <<args, cwd, exits, browser, closes, files, web, page, request>>

(* const options = new Options(args, cwd); console.log(begin) *)
NewOptions ==
    /\ pc = "main"
    /\ \E o \in {Options(args, cwd)} :
          IF o.threw
          THEN /\ Rejected("options", "SyntaxError")
               /\ UNCHANGED <<options, console>>
          ELSE /\ Fulfilled("options", "readSrc")
               /\ options' = <<o>>
               /\ console' = Append(console, Note("begin", NoError))
    /\ UNCHANGED <<args, cwd, exits, browser, closes, files, web, page, request>>

(* const md = await fs.readFile(options.src, ...) *)
ReadSrc ==
    /\ pc = "readSrc"
    /\ \/ Fulfilled("readSrc", "marked")
       \/ \E c \in RejectionClasses : Rejected("readSrc", c)
    /\ UNCHANGED <<args, cwd, options, console, exits, browser, closes, files,
                   web, page, request>>

(* const html = await marked(md) *)
Marked ==
    /\ pc = "marked"
    /\ \/ Fulfilled("marked", "readCss")
       \/ \E c \in RejectionClasses : Rejected("marked", c)
    /\ UNCHANGED <<args, cwd, options, console, exits, browser, closes, files,
                   web, page, request>>

(* const css = await fs.readFile(path.resolve(import.meta.dir, ...)) *)
ReadCss ==
    /\ pc = "readCss"
    /\ \/ Fulfilled("readCss", "compose")
       \/ \E c \in RejectionClasses : Rejected("readCss", c)
    /\ UNCHANGED <<args, cwd, options, console, exits, browser, closes, files,
                   web, page, request>>

(* const title = path.basename(options.src).replace('.md', '') *)
title(o) == replace(basename(o.src), DotMd, EmptyStr)

(* options.src.replace('.md', '.html') *)
htmlPath(o) == replace(o.src, DotMd, DotHtml)

(* const title = ...; const web = `...<title>${title}</title>...` *)
Compose ==
    /\ pc = "compose"
    /\ web' = <<[title |-> title(options[1])]>>
    /\ Fulfilled("compose", "saveHTML")
    /\ UNCHANGED <<args, cwd, options, console, exits, browser, closes, files,
                   page, request>>

(* Mutation of SaveHTML: the write is started but not awaited, so control  *)
(* reaches the launch with the file not yet written.                       *)
SaveHTMLNotAwaited ==
    /\ pc = "saveHTML"
    /\ pc' = "launch"
    /\ UNCHANGED <<steps, thrown, files>>
    /\ UNCHANGED <<args, cwd, options, console, exits, browser, closes,
                   web, page, request>>

(* options.outputHTML && await fs.writeFile(htmlPath, web) *)
SaveHTML ==
    /\ pc = "saveHTML"
    /\ IF options[1].outputHTML
       THEN \/ /\ Fulfilled("writeHTML", "launch")
               /\ files' = files \cup {[kind |-> "html", path |-> htmlPath(options[1])]}
            \/ /\ \E c \in RejectionClasses : Rejected("writeHTML", c)
               /\ files' = files
       ELSE /\ pc' = "launch"
            /\ UNCHANGED <<steps, thrown, files>>
    /\ UNCHANGED <<args, cwd, options, console, exits, browser, closes,
                   web, page, request>>

(* const browser = await puppeteer.launch({ executablePath }) *)
Launch ==
    /\ pc = "launch"
    /\ \/ /\ Fulfilled("launch", "newPage")
          /\ browser' = "open"
       \/ /\ \E c \in RejectionClasses : Rejected("launch", c)
          /\ browser' = browser
    /\ UNCHANGED <<args, cwd, options, console, exits, closes, files,
                   web, page, request>>

(* const page = await browser.newPage() *)
NewPage ==
    /\ pc = "newPage"
    /\ \/ /\ Fulfilled("newPage", "setContent")
          /\ page' = "blank"
       \/ /\ \E c \in RejectionClasses : Rejected("newPage", c)
          /\ page' = page
    /\ UNCHANGED <<args, cwd, options, console, exits, browser, closes, files,
                   web, request>>

(* await page.setContent(web) *)
SetContent ==
    /\ pc = "setContent"
    /\ \/ /\ Fulfilled("setContent", "pdf")
          /\ page' = "loaded"
       \/ /\ \E c \in RejectionClasses : Rejected("setContent", c)
          /\ page' = page
    /\ UNCHANGED <<args, cwd, options, console, exits, browser, closes, files,
                   web, request>>

(* What the print engine puts into the header: the element of class        *)
(* "title" of the header template is filled with the document title, which *)
(* is the <title> of the composed page.                                    *)
printedTitle(req, w) ==
    IF req.headerTemplate = TitleHeaderTemplate THEN w.title ELSE EmptyStr

(* The argument of page.pdf. *)
pdfOptions(o) ==
    [path |-> o.out,
     format |-> "A4",
     displayHeaderFooter |-> TRUE,
     headerTemplate |-> IF o.showTitle THEN TitleHeaderTemplate
                        ELSE EmptyHeaderTemplate,
     footerTemplate |-> FooterTemplate]

(* await page.pdf({...}) *)
Pdf ==
    /\ pc = "pdf"
    /\ request' = <<pdfOptions(options[1])>>
    /\ \/ /\ Fulfilled("pdf", "close")
          /\ files' = files \cup {[kind |-> "pdf", path |-> options[1].out]}
       \/ /\ \E c \in RejectionClasses : Rejected("pdf", c)
          /\ files' = files
    /\ UNCHANGED <<args, cwd, options, console, exits, browser, closes,
                   web, page>>

(* await browser.close() *)
Close ==
    /\ pc = "close"
    /\ \/ /\ Fulfilled("close", "returned")
          /\ browser' = "closed"
          /\ closes' = closes + 1
       \/ /\ \E c \in RejectionClasses : Rejected("close", c)
          /\ UNCHANGED <<browser, closes>>
    /\ UNCHANGED <<args, cwd, options, console, exits, files, web, page, request>>

(* renderMarkdown has returned: console.log(success) *)
Success ==
    /\ pc = "returned"
    /\ console' = Append(console, Note("success", NoError))
    /\ pc' = "finally"
    /\ UNCHANGED <<args, cwd, options, thrown, steps, exits, browser, closes,
                   files, web, page, request>>

(* Mutation of Catch: every caught value is reported with the usage        *)
(* message.                                                                *)
CatchAlwaysUsage ==
    /\ pc = "catch"
    /\ console' = Append(console, Note("paramError", NoError))
    /\ pc' = "finally"
    /\ UNCHANGED <<args, cwd, options, thrown, steps, exits, browser, closes,
                   files, web, page, request>>

(* catch (e): the usage message for a SyntaxError, name and message for    *)
(* any other Error, nothing for a value that is not an Error.              *)
Catch ==
    /\ pc = "catch"
    /\ console' = IF InstanceOfSyntaxError(thrown)
                  THEN Append(console, Note("paramError", NoError))
                  ELSE IF InstanceOfError(thrown)
                  THEN Append(console, Note("unknownError", thrown))
                  ELSE console
    /\ pc' = "finally"
    /\ UNCHANGED <<args, cwd, options, thrown, steps, exits, browser, closes,
                   files, web, page, request>>

(* Mutation of Exit: a failed run exits with status 1.                     *)
ExitWithFailureStatus ==
    /\ pc = "finally"
    /\ exits' = Append(exits, IF thrown = NoError THEN 0 ELSE 1)
    /\ pc' = "exited"
    /\ UNCHANGED <<args, cwd, options, thrown, steps, console, browser, closes,
                   files, web, page, request>>

(* finally { process.exit(0) } *)
Exit ==
    /\ pc = "finally"
    /\ exits' = Append(exits, 0)
    /\ pc' = "exited"
    /\ UNCHANGED <<args, cwd, options, thrown, steps, console, browser, closes,
                   files, web, page, request>>

Next ==
    \/ NewOptions
    \/ ReadSrc
    \/ Marked
    \/ ReadCss
    \/ Compose
    \/ SaveHTML
    \/ Launch
    \/ NewPage
    \/ SetContent
    \/ Pdf
    \/ Close
    \/ Success
    \/ Catch
    \/ Exit

Spec == Init /\ [][Next]_vars

(* Every awaited call settles and the event loop runs the continuation.    *)
FairSpec == Spec /\ WF_vars(Next)

-----------------------------------------------------------------------------
(* Vocabulary of the properties below.                                     *)

Attempted(step) == \E i \in DOMAIN steps : steps[i].step = step
Did(step)       == \E i \in DOMAIN steps : steps[i].step = step /\ steps[i].ok
Failed(step)    == \E i \in DOMAIN steps : steps[i].step = step /\ ~steps[i].ok
AnyFailed       == \E i \in DOMAIN steps : ~steps[i].ok
IndexOfStep(step) == CHOOSE i \in DOMAIN steps : steps[i].step = step

Kinds(kindSet) == SelectSeq(console, LAMBDA n : n.kind \in kindSet)
ErrorNotes == Kinds({"paramError", "unknownError"})

(* An argument as the specification reads it: the key is the text before   *)
(* the first '=', the value the text after it.                             *)
HasEq(arg)   == \E i \in DOMAIN arg : arg[i] = "="
FirstEq(arg) == CHOOSE i \in DOMAIN arg :
                    arg[i] = "=" /\ \A j \in 1..(i - 1) : arg[j] # "="
KeyOf(arg)   == IF HasEq(arg) THEN SubSeq(arg, 1, FirstEq(arg) - 1) ELSE arg
ValueOf(arg) == IF HasEq(arg) THEN SubSeq(arg, FirstEq(arg) + 1, Len(arg))
                ELSE EmptyStr
ValueKeys == {KeySrc, KeyOut, KeyBrowser}
FlagKeys  == {KeyOutputHTML, KeyShowTitle}
Supplied(key) == \E i \in DOMAIN args : KeyOf(args[i]) = key
LastValue(key) ==
    LET i == CHOOSE k \in DOMAIN args :
                 /\ KeyOf(args[k]) = key
                 /\ \A j \in DOMAIN args : KeyOf(args[j]) = key => j <= k
    IN ValueOf(args[i])

(* A name with its trailing extension removed / exchanged.                 *)
StripExt(s, ext) == IF endsWith(s, ext) THEN SubSeq(s, 1, Len(s) - Len(ext)) ELSE s
SwapExt(s, ext, new) == IF endsWith(s, ext) THEN StripExt(s, ext) \o new ELSE s

-----------------------------------------------------------------------------
(* C1: once puppeteer.launch has returned a browser, that browser is       *)
(* closed exactly once on every exit path, also when newPage, setContent   *)
(* or pdf fails: no run ends with a launched browser that was not closed.  *)
C1_BrowserClosedOnEveryExit ==
    (pc = "exited" /\ Did("launch")) => (browser = "closed" /\ closes = 1)

-----------------------------------------------------------------------------
(* C2: the steps run in the order parameter resolution, source read and    *)
(* Markdown rendering, page composition with the optional HTML write, PDF  *)
(* emission; each runs at most once; after a step has failed no later step *)
(* runs; when parameter resolution fails nothing is read or written and    *)
(* no browser is launched.                                                 *)
StepOrder(withHTML) ==
    <<"options", "readSrc", "marked", "readCss", "compose">>
      \o (IF withHTML THEN <<"writeHTML">> ELSE <<>>)
      \o <<"launch", "newPage", "setContent", "pdf", "close">>

C2_StepsInOrder ==
    LET order == StepOrder(options # <<>> /\ options[1].outputHTML)
    IN /\ Len(steps) <= Len(order)
       /\ \A i \in DOMAIN steps : steps[i].step = order[i]
       /\ \A i \in DOMAIN steps : ~steps[i].ok => i = Len(steps)
       /\ Failed("options") =>
            /\ Len(steps) = 1
            /\ options = <<>>
            /\ files = {}
            /\ browser = "none"
            /\ web = <<>> /\ page = "none" /\ request = <<>>

(* Scenario: ["--src=a", "--f"] has ended as a parameter error. *)
C2_Witness ==
    /\ pc = "exited"
    /\ args = << Cat(KeySrc, <<"=", "a">>), <<"-", "-", "f">> >>
    /\ steps = <<[step |-> "options", ok |-> FALSE]>>

-----------------------------------------------------------------------------
(* C3: with outputHTML set, the composed page has been written to the      *)
(* source path with '.md' swapped for '.html' before the browser is        *)
(* launched and before the PDF is generated; when that write fails the     *)
(* browser is never launched; with outputHTML not set no HTML file is      *)
(* written.                                                                *)
HtmlFiles == {f \in files : f.kind = "html"}

-----------------------------------------------------------------------------
-----------------------------------------------------------------------------
(* C5: every invocation of main terminates the process, exactly once and   *)
(* with exit status 0, on the success, parameter-error and unknown-error   *)
(* paths alike, and only after the notification of that path has been      *)
(* emitted.                                                                *)
Notified ==
    IF thrown = NoError THEN Kinds({"success"}) # <<>>
    ELSE IF Failed("options") THEN Kinds({"paramError"}) # <<>>
    ELSE Kinds({"unknownError"}) # <<>>

ExitDiscipline ==
    /\ Len(exits) <= 1
    /\ \A i \in DOMAIN exits : exits[i] = 0
    /\ (pc = "exited") <=> (Len(exits) = 1)
    /\ exits # <<>> => Notified
    /\ pc = "finally" => Notified

C5_TerminatesOnceWithZero == <>(pc = "exited") /\ []ExitDiscipline

(* The three terminal paths are all taken; this one is the unknown error. *)
C5_Witness ==
    /\ pc = "exited"
    /\ exits = <<0>>
    /\ thrown.at = "pdf"
    /\ Kinds({"unknownError"}) # <<>>

-----------------------------------------------------------------------------
(* C6: resolution fails with a parameter error whenever some argument, at  *)
(* any position, has a key that is not recognised, or is a value key with  *)
(* no '=' or with an empty value, or when no --src was supplied; no        *)
(* Options object is produced then.                                        *)
BadArg(arg) ==
    \/ KeyOf(arg) \notin (ValueKeys \cup FlagKeys)
    \/ KeyOf(arg) \in ValueKeys /\ (~HasEq(arg) \/ ValueOf(arg) = EmptyStr)

-----------------------------------------------------------------------------
(* C7, as stated: a flag key with an appended value (--outputHTML=1,       *)
(* --showTitle=1) is a parameter error: resolution fails and the flag is   *)
(* not set.                                                                *)
FlagWithValue(arg) == KeyOf(arg) \in FlagKeys /\ HasEq(arg)

C7_FlagWithValueRejected ==
    (pc # "main" /\ \E i \in DOMAIN args : FlagWithValue(args[i])) => options = <<>>

(* C7, amended: a flag key with an appended value is treated exactly as    *)
(* the bare flag: what follows the key is ignored, resolution succeeds or  *)
(* fails as it does with the bare flag, and when it succeeds the flag is   *)
(* set.                                                                    *)
BareFlags(as) ==
    [i \in DOMAIN as |-> IF FlagWithValue(as[i]) THEN KeyOf(as[i]) ELSE as[i]]

C7_FlagWithValueAccepted ==
    pc # "main" =>
        /\ \E o \in {Options(BareFlags(args), cwd)} :
              options = (IF o.threw THEN <<>> ELSE <<o>>)
        /\ options # <<>> =>
             /\ (\E i \in DOMAIN args : KeyOf(args[i]) = KeyOutputHTML)
                    <=> options[1].outputHTML
             /\ (\E i \in DOMAIN args : KeyOf(args[i]) = KeyShowTitle)
                    <=> options[1].showTitle

(* ["--src=a", "--outputHTML=1"] has been accepted with the flag set. *)
C7_Witness ==
    /\ pc # "main"
    /\ args = << Cat(KeySrc, <<"=", "a">>), Cat(KeyOutputHTML, <<"=", "1">>) >>
    /\ options # <<>>
    /\ options[1].outputHTML

-----------------------------------------------------------------------------
(* C8: for every accepted argument list without --out, the output path is  *)
(* the source path with its trailing .md extension replaced by .pdf, in    *)
(* the directory of the source, and it ends in .pdf.                       *)
C8_DefaultOutSwapsExtension ==
    (options # <<>> /\ ~Supplied(KeyOut)) =>
        /\ options[1].out = SwapExt(options[1].src, DotMd, DotPdf)
        /\ endsWith(options[1].out, DotPdf)

-----------------------------------------------------------------------------
(* C9: the source path is resolve(cwd, v) when the accepted --src value v  *)
(* ends in .md and resolve(cwd, v + ".md") otherwise, and likewise the     *)
(* output path for --out with .pdf; the extension is never omitted and     *)
(* never appended to a value that has it; the last occurrence of a         *)
(* repeated key decides.                                                   *)
ExpectedPath(v, ext) ==
    IF endsWith(v, ext) THEN resolve(cwd, v) ELSE resolve(cwd, v \o ext)

C9_PathsResolved ==
    options # <<>> =>
        /\ options[1].src = ExpectedPath(LastValue(KeySrc), DotMd)
        /\ endsWith(options[1].src, DotMd)
        /\ endsWith(options[1].src, DotMd \o DotMd)
              => endsWith(LastValue(KeySrc), DotMd \o DotMd)
        /\ Supplied(KeyOut) =>
              /\ options[1].out = ExpectedPath(LastValue(KeyOut), DotPdf)
              /\ endsWith(options[1].out, DotPdf)
              /\ endsWith(options[1].out, DotPdf \o DotPdf)
                    => endsWith(LastValue(KeyOut), DotPdf \o DotPdf)

(* --src given twice, the second value without extension and relative to   *)
(* the parent directory: the source is /b.md.                              *)
C9_Witness ==
    /\ options # <<>>
    /\ args = << Cat(KeySrc, <<"=", "a", ".", "m", "d">>),
                 Cat(KeySrc, <<"=", ".", ".", "/", "b">>) >>
    /\ cwd = <<"/", "w">>
    /\ options[1].src = <<"/", "b", ".", "m", "d">>

-----------------------------------------------------------------------------
(* C10: the header template of the print request depends only on           *)
(* showTitle: the empty template when it is false, and when it is true a   *)
(* template that shows the derived title, the source file name with its    *)
(* .md extension stripped; the footer template is the same in both cases   *)
(* and header/footer display is enabled.                                   *)
C10_HeaderShowsTitle ==
    request # <<>> =>
        /\ request[1].headerTemplate =
              (IF options[1].showTitle THEN TitleHeaderTemplate
               ELSE EmptyHeaderTemplate)
        /\ request[1].footerTemplate = FooterTemplate
        /\ request[1].displayHeaderFooter
        /\ options[1].showTitle =>
              printedTitle(request[1], web[1])
                 = StripExt(basename(options[1].src), DotMd)

====
